---- MODULE Spec2Model ----
(***************************************************************************)
(* convertToGeoJson                                                        *)
(* (x-pack/plugins/maps/public/classes/sources/esql_source/                *)
(*  convert_to_geojson.ts): an ES|QL tabular response is turned into a     *)
(* GeoJSON FeatureCollection, one Feature per row whose geometry cell      *)
(* parses as WKT.                                                          *)
(*                                                                         *)
(* Arrays are 1-based here (TypeScript index k is k + 1 below), so a       *)
(* geometry index of 0 stands for "the locator threw".  Cell values are    *)
(* strings; Null, Empty and Undefined are JavaScript's null, '' and        *)
(* undefined.  A properties object is a function over Names with Absent    *)
(* for a key the object does not have.                                     *)
(***************************************************************************)
EXTENDS Integers, Sequences, FiniteSets

\* ------------------------------------------------------------------ bounds
MaxCols == 3
MaxRows == 3
MaxCells == 3
MaxCalls == 2

\* ------------------------------------------------------------------ values
Null == "<null>"
Undefined == "<undefined>"
Empty == ""
Absent == "<absent>"
GoodWkt == "POINT (1 2)"
BadWkt == "NOT WKT"

Vals == {Null, Empty, GoodWkt, BadWkt}
GeometryName == "geom"
Names == {GeometryName, "id"}
ColumnDescs == {[name |-> n] : n \in Names}

SeqsUpTo(S, n) == UNION {[1..k -> S] : k \in 0..n}

Range(s) == {s[k] : k \in 1..Len(s)}

\* hit[k] of a JavaScript array: undefined past the end
Get(hit, k) == IF k \in 1..Len(hit) THEN hit[k] ELSE Undefined

NoGeometry == [type |-> "none", coordinates |-> <<>>]
NoProperties == [n \in Names |-> Absent]
NoFeature == [type |-> "none", geometry |-> NoGeometry, properties |-> NoProperties]
NoRet == [type |-> "none", features |-> <<>>]

\* ------------------------------------------------------------ collaborators
\* the geometry-column locator: the single column recognised as geometry,
\* or a failure (0) when none or several are
isGeometryColumn(column) == column.name = GeometryName

getGeometryColumnIndex(columns) ==
    LET cand == {k \in 1..Len(columns) : isGeometryColumn(columns[k])}
    IN  IF Cardinality(cand) = 1 THEN CHOOSE k \in cand : TRUE ELSE 0

\* the WKT parser: a geometry object, or a parse fault
parse(wkt) ==
    IF wkt = GoodWkt
    THEN [fault |-> FALSE, geometry |-> [type |-> "Point", coordinates |-> <<1, 2>>]]
    ELSE [fault |-> TRUE, geometry |-> NoGeometry]

\* ---------------------------------------------------------------- the code
\* `!wkt` is false
Truthy_NullOnly(v) == v # Null
Truthy(v) == v \notin {Null, Empty, Undefined}

\* the bound of `for (let j = 0; j < hit.length; j++)`
PropertyLoopBound_Columns(hit, columns) == Len(columns)
PropertyLoopBound_OffByOne(hit, columns) == Len(hit) - 1
PropertyLoopBound(hit, columns) == Len(hit)

\* properties[key] = value
SetProperty_KeepFirst(props, key, value) ==
    IF props[key] # Absent THEN props ELSE [props EXCEPT ![key] = value]
SetProperty(props, key, value) == [props EXCEPT ![key] = value]

\* `if (j === geometryIndex) continue;`
SkipsColumn_Never(j, geometryIndex) == FALSE
SkipsColumn(j, geometryIndex) == j = geometryIndex

\* the property loop from index j on; resp.columns[j].name of a column that
\* does not exist is a TypeError
RECURSIVE BuildProperties(_, _, _, _, _)
BuildProperties(hit, columns, geometryIndex, j, props) ==
    IF j > PropertyLoopBound(hit, columns)
    THEN [thrown |-> FALSE, properties |-> props]
    ELSE IF SkipsColumn(j, geometryIndex)
    THEN BuildProperties(hit, columns, geometryIndex, j + 1, props)
    ELSE IF j > Len(columns)
    THEN [thrown |-> TRUE, properties |-> props]
    ELSE BuildProperties(hit, columns, geometryIndex, j + 1,
                         SetProperty(props, columns[j].name, Get(hit, j)))

\* the body of the try block for one row: the feature to push, or thrown
TryRow_NullGeometry(hit, columns, geometryIndex) ==
    LET p == parse(Get(hit, geometryIndex))
        b == BuildProperties(hit, columns, geometryIndex, 1, NoProperties)
    IN  [thrown |-> FALSE,
         feature |-> [type |-> "Feature", geometry |-> p.geometry,
                      properties |-> b.properties]]
TryRow(hit, columns, geometryIndex) ==
    LET p == parse(Get(hit, geometryIndex))
        b == BuildProperties(hit, columns, geometryIndex, 1, NoProperties)
    IN  IF p.fault \/ b.thrown
        THEN [thrown |-> TRUE, feature |-> NoFeature]
        ELSE [thrown |-> FALSE,
              feature |-> [type |-> "Feature", geometry |-> p.geometry,
                           properties |-> b.properties]]

\* features.push(x)
Push_Unshift(seq, x) == <<x>> \o seq
Push(seq, x) == Append(seq, x)

\* ------------------------------------------------------------------- state
VARIABLES
    resp,          \* the argument object: columns and values
    arg,           \* (history) the argument as the first caller passed it
    pc,            \* "idle" | "loop" | "returned" | "thrown"
    geometryIndex, \* const geometryIndex
    features,      \* const features
    i,             \* the row loop's index
    ret,           \* the value returned by the current call
    callNo,        \* which call on this argument is running
    prev,          \* how the previous call on this argument ended
    featureRows,   \* (history) the row each element of features was built from
    parseCalls,    \* (history) the rows whose geometry cell was handed to parse
    locateCalls    \* (history) calls of the locator made by the current call

vars == <<resp, arg, pc, geometryIndex, features, i, ret, callNo, prev,
          featureRows, parseCalls, locateCalls>>

\* the tables explored: up to MaxRows rows holding up to MaxCells cells between
\* them.  Row lengths are independent of each other and of the number of
\* columns: nothing in the code checks them.
RECURSIVE TablesWithin(_, _)
TablesWithin(rows, cells) ==
    IF rows = 0
    THEN {<<>>}
    ELSE {<<>>} \cup
         UNION {{<<hit>> \o rest : hit \in [1..n -> Vals],
                                   rest \in TablesWithin(rows - 1, cells - n)}
                : n \in 0..cells}

Responses ==
    [columns : SeqsUpTo(ColumnDescs, MaxCols), values : TablesWithin(MaxRows, MaxCells)]

Init ==
    /\ resp \in Responses
    /\ arg = resp
    /\ pc = "idle"
    /\ geometryIndex = 0
    /\ features = <<>>
    /\ i = 0
    /\ ret = NoRet
    /\ callNo = 1
    /\ prev = [pc |-> "none", ret |-> NoRet]
    /\ featureRows = <<>>
    /\ parseCalls = {}
    /\ locateCalls = 0

\* lines 15-17: locate the geometry column, create features, start the loop;
\* a locator failure leaves the function at once
Enter_IgnoresLocatorFailure ==
    /\ pc = "idle"
    /\ locateCalls' = 1
    /\ featureRows' = <<>>
    /\ parseCalls' = {}
    /\ geometryIndex' = getGeometryColumnIndex(resp.columns)
    /\ features' = <<>>
    /\ i' = 1
    /\ pc' = "loop"
    /\ UNCHANGED <<resp, arg, ret, callNo, prev>>
Enter_KeepsFeatures ==
    /\ pc = "idle"
    /\ locateCalls' = 1
    /\ parseCalls' = {}
    /\ IF getGeometryColumnIndex(resp.columns) = 0
       THEN /\ pc' = "thrown"
            /\ UNCHANGED <<geometryIndex, features, featureRows, i>>
       ELSE /\ geometryIndex' = getGeometryColumnIndex(resp.columns)
            /\ UNCHANGED <<features, featureRows>>
            /\ i' = 1
            /\ pc' = "loop"
    /\ UNCHANGED <<resp, arg, ret, callNo, prev>>
Enter ==
    /\ pc = "idle"
    /\ locateCalls' = 1
    /\ featureRows' = <<>>
    /\ parseCalls' = {}
    /\ IF getGeometryColumnIndex(resp.columns) = 0
       THEN /\ pc' = "thrown"
            /\ UNCHANGED <<geometryIndex, features, i>>
       ELSE /\ geometryIndex' = getGeometryColumnIndex(resp.columns)
            /\ features' = <<>>
            /\ i' = 1
            /\ pc' = "loop"
    /\ UNCHANGED <<resp, arg, ret, callNo, prev>>

\* lines 17-22: a row whose geometry cell is falsy is passed over
SkipRow ==
    /\ pc = "loop"
    /\ i <= Len(resp.values)
    /\ ~Truthy(Get(resp.values[i], geometryIndex))
    /\ i' = i + 1
    /\ UNCHANGED <<resp, arg, pc, geometryIndex, features, ret, callNo, prev,
                   featureRows, parseCalls, locateCalls>>

\* lines 17-37: the try block runs to its end and the feature is pushed
EmitRow ==
    /\ pc = "loop"
    /\ i <= Len(resp.values)
    /\ Truthy(Get(resp.values[i], geometryIndex))
    /\ ~TryRow(resp.values[i], resp.columns, geometryIndex).thrown
    /\ parseCalls' = parseCalls \cup {i}
    /\ features' = Push(features, TryRow(resp.values[i], resp.columns, geometryIndex).feature)
    /\ featureRows' = Push(featureRows, i)
    /\ i' = i + 1
    /\ UNCHANGED <<resp, arg, pc, geometryIndex, ret, callNo, prev, locateCalls>>

\* lines 17-40: the try block throws and the catch clause drops the error
CatchRow_Rethrows ==
    /\ pc = "loop"
    /\ i <= Len(resp.values)
    /\ Truthy(Get(resp.values[i], geometryIndex))
    /\ TryRow(resp.values[i], resp.columns, geometryIndex).thrown
    /\ parseCalls' = parseCalls \cup {i}
    /\ pc' = "thrown"
    /\ UNCHANGED <<resp, arg, i, geometryIndex, features, ret, callNo, prev,
                   featureRows, locateCalls>>
CatchRow ==
    /\ pc = "loop"
    /\ i <= Len(resp.values)
    /\ Truthy(Get(resp.values[i], geometryIndex))
    /\ TryRow(resp.values[i], resp.columns, geometryIndex).thrown
    /\ parseCalls' = parseCalls \cup {i}
    /\ i' = i + 1
    /\ UNCHANGED <<resp, arg, pc, geometryIndex, features, ret, callNo, prev,
                   featureRows, locateCalls>>

\* lines 43-46
Return ==
    /\ pc = "loop"
    /\ i > Len(resp.values)
    /\ ret' = [type |-> "FeatureCollection", features |-> features]
    /\ pc' = "returned"
    /\ UNCHANGED <<resp, arg, geometryIndex, features, i, callNo, prev,
                   featureRows, parseCalls, locateCalls>>

\* the caller converts the same response once more
CallAgain ==
    /\ pc \in {"returned", "thrown"}
    /\ callNo < MaxCalls
    /\ prev' = [pc |-> pc, ret |-> ret]
    /\ ret' = NoRet
    /\ locateCalls' = 0
    /\ callNo' = callNo + 1
    /\ pc' = "idle"
    /\ UNCHANGED <<resp, arg, geometryIndex, features, i, featureRows, parseCalls>>

Next == Enter \/ SkipRow \/ EmitRow \/ CatchRow \/ Return \/ CallAgain

Spec == Init /\ [][Next]_vars

\* ------------------------------------------------------- claim vocabulary
Gi == getGeometryColumnIndex(arg.columns)
Resolves == Gi # 0
Rows == 1..Len(arg.values)
GeomCell(r) == Get(arg.values[r], Gi)
IsAbsentCell(v) == v \in {Null, Empty, Undefined}
ParserAccepts(v) == ~parse(v).fault
Usable(r) == ~IsAbsentCell(GeomCell(r)) /\ ParserAccepts(GeomCell(r))
Faulting(r) == ~IsAbsentCell(GeomCell(r)) /\ ~ParserAccepts(GeomCell(r))
WithinColumns(r) == Len(arg.values[r]) <= Len(arg.columns)
Returned == pc = "returned"
\* the non-geometry columns a row of this length reaches
PropertyColumns(hit) == {j \in 1..Len(arg.columns) : j # Gi /\ j <= Len(hit)}
AllPropertyColumns == {j \in 1..Len(arg.columns) : j # Gi}
Max(S) == CHOOSE m \in S : \A x \in S : x <= m
SameName(S, j) == {k \in S : arg.columns[k].name = arg.columns[j].name}

\* C1 as stated: on return, features.length <= values.length, with equality
\* iff every row has a non-empty geometry value that the parser accepts.
C1_RowCountAsStated ==
    Returned =>
        /\ Len(ret.features) <= Len(arg.values)
        /\ (Len(ret.features) = Len(arg.values)) <=> (\A r \in Rows : Usable(r))

\* C1 amended: on return, features.length <= values.length, with equality iff
\* every row has a non-empty geometry value that the parser accepts and holds
\* no more values than there are columns.
C1_RowCount ==
    Returned =>
        /\ Len(ret.features) <= Len(arg.values)
        /\ (Len(ret.features) = Len(arg.values))
               <=> (\A r \in Rows : Usable(r) /\ WithinColumns(r))

C1_Witness ==
    /\ Returned
    /\ Len(arg.values) >= 2
    /\ Len(ret.features) = Len(arg.values)

\* C2: once the geometry column resolves the call never throws; a row whose
\* geometry value faults in the parser yields no feature, every usable
\* well-formed row still yields one, and with no rows or only faulting rows the
\* result is a FeatureCollection with no features.
C2_ParseFaultAbsorbed ==
    Resolves =>
        /\ pc # "thrown"
        /\ Returned =>
              /\ \A r \in Rows : Faulting(r) => r \notin Range(featureRows)
              /\ \A r \in Rows : Usable(r) /\ WithinColumns(r) => r \in Range(featureRows)
              /\ (\A r \in Rows : Faulting(r))
                     => ret = [type |-> "FeatureCollection", features |-> <<>>]

C2_Witness ==
    /\ Returned
    /\ \E r \in Rows : Faulting(r) /\ r \in parseCalls /\ r + 1 \in Range(featureRows)

\* C3: when the locator fails the call ends by throwing, with no row read, no
\* parse, no feature and no return value; every call makes exactly one locator
\* call, and makes it before the row loop.
C3_LocatorFailurePropagates ==
    /\ ~Resolves =>
          /\ pc \in {"idle", "thrown"}
          /\ i = 0
          /\ parseCalls = {}
          /\ features = <<>>
          /\ ret = NoRet
    /\ locateCalls = (IF pc = "idle" THEN 0 ELSE 1)

C3_Witness ==
    /\ pc = "thrown"
    /\ Len(arg.columns) >= 2
    /\ Len(arg.values) >= 1
    /\ \E r \in Rows : Get(arg.values[r], 1) = GoodWkt

\* C4: the features stand in the order of the rows they were built from, each
\* being the feature of its row.
C4_OrderPreserved ==
    /\ Len(features) = Len(featureRows)
    /\ \A a, b \in 1..Len(featureRows) : a < b => featureRows[a] < featureRows[b]
    /\ \A k \in 1..Len(featureRows) :
          /\ featureRows[k] \in Rows
          /\ features[k].geometry = parse(GeomCell(featureRows[k])).geometry
    /\ Returned => ret.features = features

C4_Witness ==
    /\ Returned
    /\ Len(arg.values) = 3
    /\ featureRows = <<1, 3>>
    /\ ret.features[1] # ret.features[2]

\* C5 as stated: every emitted feature has, for every non-geometry column, an
\* entry under the column's name holding the row's value at that column.
C5_PropertiesAsStated ==
    Returned =>
        \A k \in 1..Len(ret.features) :
            \A j \in AllPropertyColumns :
                LET p == ret.features[k].properties
                    hit == arg.values[featureRows[k]]
                IN  /\ p[arg.columns[j].name] # Absent
                    /\ p[arg.columns[j].name] = Get(hit, j)

\* C5 amended: every emitted feature has, for every non-geometry column whose
\* index lies within the source row, an entry under the column's name, holding
\* the row's value at the last such column of that name; it has no other entry.
C5_Properties ==
    Returned =>
        \A k \in 1..Len(ret.features) :
            LET p == ret.features[k].properties
                hit == arg.values[featureRows[k]]
                cols == PropertyColumns(hit)
            IN  /\ \A j \in cols :
                      /\ p[arg.columns[j].name] # Absent
                      /\ p[arg.columns[j].name] = hit[Max(SameName(cols, j))]
                /\ \A n \in Names :
                      p[n] # Absent => \E j \in cols : arg.columns[j].name = n

C5_Witness ==
    /\ Returned
    /\ Len(arg.columns) = 3
    /\ \E k \in 1..Len(ret.features) :
          /\ Len(arg.values[featureRows[k]]) = 3
          /\ ret.features[k].properties["id"] = BadWkt

\* C6: in no emitted feature does properties hold the geometry column's raw
\* value under the geometry column's name.
C6_GeometryExcluded ==
    Returned =>
        \A k \in 1..Len(ret.features) :
            ret.features[k].properties[arg.columns[Gi].name] # GeomCell(featureRows[k])

C6_Witness ==
    /\ Returned
    /\ Len(ret.features) >= 1
    /\ Gi = 2
    /\ ret.features[1].properties["id"] = GoodWkt

\* C7: a row whose geometry value is null, '' or undefined is never handed to
\* the parser, yields no feature, and does not make the call throw.
C7_AbsentSkipped ==
    Resolves =>
        /\ pc # "thrown"
        /\ \A r \in Rows :
              IsAbsentCell(GeomCell(r))
                  => r \notin parseCalls /\ r \notin Range(featureRows)

C7_Witness ==
    /\ Returned
    /\ {Null, Empty, Undefined} \subseteq {GeomCell(r) : r \in Rows}

\* C8 as stated: under a name that several non-geometry columns carry, every
\* emitted feature holds the row's value at the highest-indexed such column.
C8_LaterWinsAsStated ==
    Returned =>
        \A k \in 1..Len(ret.features) :
            \A j \in AllPropertyColumns :
                Cardinality(SameName(AllPropertyColumns, j)) > 1 =>
                    ret.features[k].properties[arg.columns[j].name]
                        = Get(arg.values[featureRows[k]],
                              Max(SameName(AllPropertyColumns, j)))

\* C8 amended: under a name that several non-geometry columns carry, every
\* emitted feature holds the row's value at the highest-indexed such column
\* that lies within the source row (and no entry when none does).
C8_LaterWins ==
    Returned =>
        \A k \in 1..Len(ret.features) :
            \A j \in AllPropertyColumns :
                Cardinality(SameName(AllPropertyColumns, j)) > 1 =>
                    LET hit == arg.values[featureRows[k]]
                        within == SameName(PropertyColumns(hit), j)
                    IN  ret.features[k].properties[arg.columns[j].name]
                            = (IF within = {} THEN Absent ELSE hit[Max(within)])

C8_Witness ==
    /\ Returned
    /\ \E k \in 1..Len(ret.features) :
          LET hit == arg.values[featureRows[k]]
          IN  /\ Cardinality(AllPropertyColumns) = 2
              /\ Len(hit) = 3
              /\ hit[Max(AllPropertyColumns)] # hit[Max(AllPropertyColumns) - 1]
              /\ Max(AllPropertyColumns) - 1 # Gi

\* C9: the argument is never changed, and a later call on it ends as the
\* call before it did, with an equal return value.
C9_Idempotent ==
    /\ resp = arg
    /\ (callNo > 1 /\ pc \in {"returned", "thrown"}) => prev = [pc |-> pc, ret |-> ret]

C9_Witness ==
    /\ callNo = 2
    /\ Returned
    /\ Len(ret.features) = 2

\* C10: a row holding more values than there are columns yields no feature and
\* does not make the call throw, even when its geometry value parses; features
\* gains no element for it.
C10_LongRowDropped ==
    /\ Resolves => pc # "thrown"
    /\ Len(features) = Len(featureRows)
    /\ \A r \in Rows : ~WithinColumns(r) => r \notin Range(featureRows)

C10_Witness ==
    /\ Returned
    /\ \E r \in Rows : ~WithinColumns(r) /\ Usable(r) /\ r \in parseCalls
    /\ Len(ret.features) >= 1

====
